---------------------------- MODULE Spec2Model ----------------------------
(* A model of the Solix shell, src/rootfs/shell/shell.c: the tokenizer, the
   variable expander, the segment planner and executor of
   execute_line_tokens, the main loop, the signal handler and the history
   ring with its file.  Strings are TLA+ strings; the character at position
   p of a C string is SubSeq(s, p, p), and "" stands for the terminating NUL. *)
EXTENDS Integers, Sequences, FiniteSets, TLC

(* ------------------------------------------------------------------ *)
(* Program constants                                                   *)
(* ------------------------------------------------------------------ *)
MAX_CMD_LEN == 1024
HISTORY_SIZE == 200
MAX_TOKENS == 128
SIGINT == 2
SIGTERM == 15

(* ------------------------------------------------------------------ *)
(* Bounds of the model                                                 *)
(* ------------------------------------------------------------------ *)
\* lines read from standard input in one session
MaxLines == 1
\* the longest line drawn from the alphabet when one line is read
MaxLen == 4
\* calls of add_to_history with a non-empty string, and with the empty string
MaxAdds == 203
MaxEmpty == 2

(* ------------------------------------------------------------------ *)
(* C strings                                                           *)
(* ------------------------------------------------------------------ *)
NUL == ""
\* s[p] of a C string, 1-based; the byte after the last character is NUL
Ch(s, p) == IF p >= 1 /\ p <= Len(s) THEN SubSeq(s, p, p) ELSE NUL

is_space(c) == c = " " \/ c = "\t"

Digits == <<"0", "1", "2", "3", "4", "5", "6", "7", "8", "9">>

DigitVal(c) == CHOOSE d \in 0..9 : Digits[d + 1] = c

IsDigit(c) == \E d \in 0..9 : Digits[d + 1] = c

RECURSIVE DecNat(_)
DecNat(n) ==
    IF n < 10 THEN Digits[n + 1]
    ELSE DecNat(n \div 10) \o Digits[(n % 10) + 1]

\* snprintf(numbuf, sizeof numbuf, "%d", n)
FormatInt(n) == IF n < 0 THEN "-" \o DecNat(0 - n) ELSE DecNat(n)

RECURSIVE AtoiDigits(_, _, _)
AtoiDigits(s, p, acc) ==
    IF IsDigit(Ch(s, p))
    THEN AtoiDigits(s, p + 1, acc * 10 + DigitVal(Ch(s, p)))
    ELSE acc

RECURSIVE SkipSpace(_, _)
SkipSpace(s, p) == IF is_space(Ch(s, p)) THEN SkipSpace(s, p + 1) ELSE p

\* atoi: leading blanks, an optional sign, then the longest run of digits
atoi(s) ==
    LET p == SkipSpace(s, 1)
    IN  IF Ch(s, p) = "-" THEN 0 - AtoiDigits(s, p + 1, 0)
        ELSE IF Ch(s, p) = "+" THEN AtoiDigits(s, p + 1, 0)
        ELSE AtoiDigits(s, p, 0)

(* ------------------------------------------------------------------ *)
(* tokenize_command                                                    *)
(* ------------------------------------------------------------------ *)
\* the characters that end an unquoted word (line 179); '&' is not one
IsWordStop(c) == is_space(c) \/ c = ";" \/ c = "|" \/ c = ">" \/ c = "<"

IsTwoCharOp(line, p) ==
    \/ Ch(line, p) = "&" /\ Ch(line, p + 1) = "&"
    \/ Ch(line, p) = "|" /\ Ch(line, p + 1) = "|"
    \/ Ch(line, p) = ">" /\ Ch(line, p + 1) = ">"

IsOneCharOp(c) == c = ";" \/ c = "|" \/ c = ">" \/ c = "<"

\* the inner loop of lines 179-185: returns the position after the word
\* and the accumulated buffer
RECURSIVE ReadWord(_, _, _, _, _)
ReadWord(line, p, buf, in_s, in_d) ==
    LET c == Ch(line, p)
    IN  IF ~(c # NUL /\ (in_s \/ in_d \/ ~IsWordStop(c)))
        THEN [p |-> p, buf |-> buf]
        ELSE IF ~in_s /\ c = "\""
        THEN ReadWord(line, p + 1, buf, in_s, ~in_d)
        ELSE IF ~in_d /\ c = "'"
        THEN ReadWord(line, p + 1, buf, ~in_s, in_d)
        ELSE IF c = "\\" /\ Ch(line, p + 1) # NUL
        THEN ReadWord(line, p + 2, buf \o Ch(line, p + 1), in_s, in_d)
        ELSE IF Len(buf) + 1 >= MAX_CMD_LEN - 1
        THEN [p |-> p + 1, buf |-> buf \o c]
        ELSE ReadWord(line, p + 1, buf \o c, in_s, in_d)

\* one pass through the body of the outer loop, lines 167-188.  st holds
\* the position p, the token array toks, and done once the loop has ended;
\* kinds records, for each token, the branch that emitted it ("Op" for lines
\* 172-176, "Word" for line 187): the C array keeps the text only.
TokStep(line, st, max_tokens) ==
    LET p == SkipSpace(line, st.p)
    IN  IF st.done THEN st
        ELSE IF Ch(line, p) = NUL \/ Len(st.toks) >= max_tokens
        THEN [st EXCEPT !.p = p, !.done = TRUE]
        ELSE IF IsTwoCharOp(line, p)
        THEN [st EXCEPT !.p = p + 2,
                        !.toks = Append(@, SubSeq(line, p, p + 1)),
                        !.kinds = Append(@, "Op")]
        ELSE IF IsOneCharOp(Ch(line, p))
        THEN [st EXCEPT !.p = p + 1, !.toks = Append(@, Ch(line, p)),
                        !.kinds = Append(@, "Op")]
        ELSE LET w == ReadWord(line, p, "", FALSE, FALSE)
             IN  [st EXCEPT !.p = w.p, !.toks = Append(@, w.buf),
                            !.kinds = Append(@, "Word")]

\* up to n passes through the loop body, one after the other, stopping
\* when the loop has ended
RECURSIVE TokIter(_, _, _, _)
TokIter(line, st, n, max_tokens) ==
    IF n <= 1 THEN TokStep(line, st, max_tokens)
    ELSE LET mid == TokIter(line, st, n \div 2, max_tokens)
         IN  IF mid.done THEN mid
             ELSE TokIter(line, mid, n - (n \div 2), max_tokens)

\* the outer loop: every pass but the last consumes a character, so it has
\* ended after Len(line) + 1 passes
TokLoop(line, p0, toks, kinds, max_tokens) ==
    LET st == TokIter(line,
                      [p |-> p0, toks |-> toks, kinds |-> kinds, done |-> FALSE],
                      Len(line) + 1, max_tokens)
    IN  [toks |-> st.toks, kinds |-> st.kinds]

tokenize_command(line, max_tokens) == TokLoop(line, 1, <<>>, <<>>, max_tokens)

(* ------------------------------------------------------------------ *)
(* expand_vars                                                         *)
(* ------------------------------------------------------------------ *)
\* the process environment seen by getenv: V holds an operator character
environ ==
    [V |-> "|", HOME |-> "/root", SHELL |-> "/bin/shell", PS1 |-> "solix> ",
     PATH |-> "/bin:/sbin:/usr/bin:/usr/sbin"]

getenv_set(name) == name \in DOMAIN environ

getenv(name) == environ[name]

expand_token(tok, numbuf) ==
    IF tok = "$?" THEN numbuf
    ELSE IF Ch(tok, 1) = "$" /\ Ch(tok, 2) # NUL /\ Ch(tok, 2) # "?"
    THEN LET name == SubSeq(tok, 2, Len(tok))
         IN  IF getenv_set(name) THEN getenv(name) ELSE tok
    ELSE tok

expand_vars(tokens, status) ==
    [k \in 1..Len(tokens) |-> expand_token(tokens[k], FormatInt(status))]

(* ------------------------------------------------------------------ *)
(* Built-in registry                                                   *)
(* ------------------------------------------------------------------ *)
builtin_commands ==
    <<"cd", "pwd", "help", "exit", "clear", "echo", "ls", "cat", "history",
      "uptime", "which", "export", "unset">>

\* cmd is the text of argv[0], or NUL for a NULL pointer
is_builtin(cmd) ==
    cmd # NUL /\ \E n \in 1..Len(builtin_commands) : builtin_commands[n] = cmd

\* builtin_exit's return value: atoi(args[1]) when present, else 0
builtin_exit(args) == IF Len(args) >= 2 THEN atoi(args[2]) ELSE 0

\* the values exec_builtin can return for argv (argv[1] is the name).  The
\* built-ins that touch the file system return 0 or 1 as the system decides.
exec_builtin(args) ==
    LET name == args[1]
    IN  CASE name = "exit" -> {builtin_exit(args)}
          [] name \in {"echo", "help", "clear", "history", "uptime"} -> {0}
          [] name = "cat" -> IF Len(args) < 2 THEN {1} ELSE {0}
          [] name \in {"which", "export", "unset"} ->
                IF Len(args) < 2 THEN {1} ELSE {0, 1}
          [] name \in {"cd", "pwd", "ls"} -> {0, 1}
          [] OTHER -> {127}

(* ------------------------------------------------------------------ *)
(* Child wait status                                                   *)
(* ------------------------------------------------------------------ *)
\* what waitpid stores: a normal exit with a code, or a death by signal
Exited(code) == [kind |-> "exited", n |-> code]

Signaled(sig) == [kind |-> "signaled", n |-> sig]

NoWait == [kind |-> "none", n |-> 0]

WIFEXITED(ws) == ws.kind = "exited"

WEXITSTATUS(ws) == ws.n

\* lines 241 and 288: WIFEXITED(status) ? WEXITSTATUS(status) : 128+SIGINT
wait_to_status(ws) == IF WIFEXITED(ws) THEN WEXITSTATUS(ws) ELSE 128 + SIGINT

(* ------------------------------------------------------------------ *)
(* Segment planner (execute_line_tokens, lines 297-332)                *)
(* ------------------------------------------------------------------ *)
IsChainOp(tok) == tok = "&&" \/ tok = "||" \/ tok = ";"

\* lines 299-301: the first j >= start holding a chain operator, else count+1
RECURSIVE FindChain(_, _)
FindChain(tokens, j) ==
    IF j > Len(tokens) THEN j
    ELSE IF IsChainOp(tokens[j]) THEN j
    ELSE FindChain(tokens, j + 1)

\* line 306: the first "|" in [start, end), 0 when there is none
RECURSIVE FindPipe(_, _, _)
FindPipe(tokens, k, end) ==
    IF k >= end THEN 0
    ELSE IF tokens[k] = "|" THEN k
    ELSE FindPipe(tokens, k + 1, end)

\* the scanning state: in_file/out_file are token indexes (0 is NULL), argv
\* is the sequence of token indexes copied so far, ops the indexes the scan
\* matched as operators
ScanInit ==
    [in_file |-> 0, out_file |-> 0, append |-> FALSE, argv |-> <<>>, ops |-> {}]

\* lines 312-316 (outR, inR both TRUE), 321-324 (inR only), 327-330 (outR only)
RECURSIVE Scan(_, _, _, _, _, _)
Scan(tokens, k, end, st, outR, inR) ==
    IF k >= end THEN st
    ELSE IF outR /\ (tokens[k] = ">" \/ tokens[k] = ">>")
    THEN LET st1 == [st EXCEPT !.append = (Ch(tokens[k], 2) = ">"),
                               !.ops = @ \cup {k}]
         IN  IF k + 1 < end
             THEN Scan(tokens, k + 2, end, [st1 EXCEPT !.out_file = k + 1],
                       outR, inR)
             ELSE Scan(tokens, k + 1, end, st1, outR, inR)
    ELSE IF inR /\ tokens[k] = "<"
    THEN LET st1 == [st EXCEPT !.ops = @ \cup {k}]
         IN  IF k + 1 < end
             THEN Scan(tokens, k + 2, end, [st1 EXCEPT !.in_file = k + 1],
                       outR, inR)
             ELSE Scan(tokens, k + 1, end, st1, outR, inR)
    ELSE Scan(tokens, k + 1, end, [st EXCEPT !.argv = Append(@, k)], outR, inR)

\* the plan of the segment that starts at token start
plan_segment(tokens, start) ==
    LET end == FindChain(tokens, start)
        chain == IF end <= Len(tokens) THEN end ELSE 0
        pipe_index == FindPipe(tokens, start, end)
    IN  IF pipe_index = 0
        THEN LET s == Scan(tokens, start, end, ScanInit, TRUE, TRUE)
             IN  [start |-> start, end |-> end, chain |-> chain,
                  pipe_index |-> 0, in_file |-> s.in_file,
                  out_file |-> s.out_file, append |-> s.append,
                  argv_left |-> s.argv, argv_right |-> <<>>,
                  ops |-> s.ops \cup (IF chain = 0 THEN {} ELSE {chain})]
        ELSE LET l == Scan(tokens, start, pipe_index, ScanInit, FALSE, TRUE)
                 r == Scan(tokens, pipe_index + 1, end, ScanInit, TRUE, FALSE)
             IN  [start |-> start, end |-> end, chain |-> chain,
                  pipe_index |-> pipe_index,
                  in_file |-> l.in_file, out_file |-> r.out_file,
                  append |-> r.append,
                  argv_left |-> l.argv, argv_right |-> r.argv,
                  ops |-> l.ops \cup r.ops \cup {pipe_index}
                            \cup (IF chain = 0 THEN {} ELSE {chain})]

\* lines 315-317 and 323-325: the indexes of argv_left the planner writes,
\* one for each word and one more for the terminating NULL
argv_left_writes(plan) == 0..Len(plan.argv_left)

\* lines 329-331: the same for argv_right, written only for a pipeline
argv_right_writes(plan) ==
    IF plan.pipe_index = 0 THEN {} ELSE 0..Len(plan.argv_right)

NoPlan ==
    [start |-> 0, end |-> 0, chain |-> 0, pipe_index |-> 0, in_file |-> 0,
     out_file |-> 0, append |-> FALSE, argv_left |-> <<>>, argv_right |-> <<>>,
     ops |-> {}]

\* the strings an argv of token indexes points to
ArgvText(tokens, idx) == [n \in 1..Len(idx) |-> tokens[idx[n]]]

\* lines 337-344: the token index at which the loop continues after a segment
\* that ended with status; every branch assigns end+1
next_segment_start(tokens, plan, status) ==
    IF tokens[plan.chain] = "&&" /\ status # 0 THEN plan.end + 1
    ELSE IF tokens[plan.chain] = "||" /\ status = 0 THEN plan.end + 1
    ELSE plan.end + 1

(* ------------------------------------------------------------------ *)
(* History store                                                       *)
(* ------------------------------------------------------------------ *)
\* the static globals command_history and history_count.  ring holds the
\* slots written so far; a slot never written is the zero-initialised ""
EmptyHistory == [count |-> 0, ring |-> [n \in {} |-> ""]]

Slot(h, idx) == IF idx \in DOMAIN h.ring THEN h.ring[idx] ELSE ""

\* strncpy(dst, command, MAX_CMD_LEN - 1) followed by the terminating NUL
Truncate(command) ==
    IF Len(command) > MAX_CMD_LEN - 1 THEN SubSeq(command, 1, MAX_CMD_LEN - 1)
    ELSE command

\* add_to_history without the test of line 359
add_to_history_unchecked(h, command) ==
    LET index == h.count % HISTORY_SIZE
    IN  [count |-> h.count + 1,
         ring |-> [n \in DOMAIN h.ring \cup {index} |->
                      IF n = index THEN Truncate(command) ELSE h.ring[n]]]

add_to_history(h, command) ==
    IF Len(command) = 0 THEN h
    ELSE LET index == h.count % HISTORY_SIZE
         IN  [count |-> h.count + 1,
              ring |-> [n \in DOMAIN h.ring \cup {index} |->
                           IF n = index THEN Truncate(command) ELSE h.ring[n]]]

\* the history file is the sequence of its lines, each shorter than the
\* fgets buffer; load_history inserts them one by one
RECURSIVE load_lines(_, _, _)
load_lines(h, file, n) ==
    IF n > Len(file) THEN h ELSE load_lines(add_to_history(h, file[n]), file, n + 1)

load_history(h, file) == load_lines(h, file, 1)

history_start(h) == IF h.count > HISTORY_SIZE THEN h.count - HISTORY_SIZE ELSE 0

\* the retained entries in order, as save_history and builtin_history walk them
history_entries(h) ==
    [n \in 1..(h.count - history_start(h)) |->
        Slot(h, (history_start(h) + n - 1) % HISTORY_SIZE)]

\* fopen(path, "a") and one fprintf per retained entry
save_history(h, file) == file \o history_entries(h)

\* printf("%3d", n): the decimal text of n, padded with blanks on the left
\* to three characters
printf_3d(n) ==
    LET t == FormatInt(n)
    IN  IF Len(t) >= 3 THEN t ELSE IF Len(t) = 2 THEN " " \o t ELSE "  " \o t

\* builtin_history, lines 634-642: the lines printed after the heading, one
\* per retained entry, printf("%3d  %s\n", i + 1, command_history[i % 200])
builtin_history(h) ==
    [n \in 1..(h.count - history_start(h)) |->
        printf_3d(history_start(h) + n) \o "  "
            \o Slot(h, (history_start(h) + n - 1) % HISTORY_SIZE) \o "\n"]

(* ------------------------------------------------------------------ *)
(* signal_handler                                                      *)
(* ------------------------------------------------------------------ *)
\* the handler with the break of the SIGINT case missing
signal_handler_fallthrough(sig, g) ==
    CASE sig = SIGINT -> [g EXCEPT !.last_status = 130, !.running = FALSE]
      [] sig = SIGTERM -> [g EXCEPT !.running = FALSE]
      [] OTHER -> g

\* g is the pair of globals the handler writes
signal_handler(sig, g) ==
    CASE sig = SIGINT -> [g EXCEPT !.last_status = 130]
      [] sig = SIGTERM -> [g EXCEPT !.running = FALSE]
      [] OTHER -> g

(* ------------------------------------------------------------------ *)
(* The environment of the shell                                        *)
(* ------------------------------------------------------------------ *)
\* the input lines a session may read
Lines ==
    { "false && echo x ; echo y",
      "true || echo y",
      "cmd ; echo $?",
      "echo $?",
      "echo hi > f",
      "cat < g",
      "echo \";\" x",
      "echo $V",
      "cmd | cmd",
      "cmd > f | cat < f",
      "exit 3",
      "nosuch",
      "echo hi > f >>",
      "echo hi >> f ; echo hi >> f",
      "cat < f",
      "cat < f > /",
      " " }

\* the programs execvp finds on PATH, with their exit codes
Installed ==
    [true |-> 0, false |-> 1, cmd |-> 7, cat |-> 0, echo |-> 0, tee |-> 0]

\* the files that exist when the session starts, with their contents
InitFiles == [f |-> "old\n"]

\* open(out_file, O_WRONLY|O_CREAT|(append?O_APPEND:O_TRUNC), 0644) on the
\* file system fs: the file is created empty, or truncated unless append
open_out(fs, path, append) ==
    [n \in DOMAIN fs \cup {path} |->
        IF n # path THEN fs[n]
        ELSE IF path \in DOMAIN fs /\ append THEN fs[path] ELSE ""]

\* one write of data through a descriptor opened by open_out at that moment:
\* at the end of the file with O_APPEND, from offset 0 otherwise
write_out(fs, path, data, append) ==
    LET old == fs[path]
    IN  [fs EXCEPT ![path] =
            IF append THEN old \o data
            ELSE IF Len(old) > Len(data)
            THEN data \o SubSeq(old, Len(data) + 1, Len(old))
            ELSE data]

\* paths that cannot be opened for writing
Unwritable == {"/"}

\* the history file's contents when the session starts
InitHistFiles == {<<>>, <<"true">>}

\* the signals that may end a child from outside
KillSignals == {SIGINT, SIGTERM}

\* the descriptor table of the shell at start-up
InitFds == [n \in {0, 1, 2} |-> "tty"]

\* open(2) returns the lowest descriptor not in use
LowestFree(tab) == CHOOSE n \in 0..Cardinality(DOMAIN tab) :
                       n \notin DOMAIN tab /\ \A m \in 0..(n - 1) : m \in DOMAIN tab

AddFd(tab, path) == [n \in DOMAIN tab \cup {LowestFree(tab)} |->
                        IF n \in DOMAIN tab THEN tab[n] ELSE path]

CloseFd(tab, fd) == [n \in DOMAIN tab \ {fd} |-> tab[n]]

\* dup2(oldfd, newfd): newfd now refers to what oldfd refers to
dup2(tab, oldfd, newfd) ==
    [n \in DOMAIN tab \cup {newfd} |-> IF n = newfd THEN tab[oldfd] ELSE tab[n]]

\* the two ends of the pipe of exec_pipeline as entries of a descriptor table
PipeR == "pipe:r"

PipeW == "pipe:w"

\* builtin_echo, lines 528-540: the arguments from args[n] on, separated by
\* single blanks
RECURSIVE echo_args(_, _)
echo_args(args, n) ==
    IF n > Len(args) THEN ""
    ELSE IF n = Len(args) THEN args[n]
    ELSE args[n] \o " " \o echo_args(args, n + 1)

\* the bytes a command writes to its standard output when it runs to its
\* end: argv is its argument vector, how tells the built-in from the program
\* found by execvp, stdin is the text it can read from descriptor 0
\* the programs that, run without arguments, copy their standard input to
\* their standard output until end-of-file (cat is the program here: the
\* built-in of that name does not read its input)
ReadsInput(how, argv) ==
    how = "execvp" /\ Len(argv) = 1 /\ argv[1] \in {"cat", "tee"}

program_output(how, argv, stdin) ==
    CASE argv[1] = "echo" -> echo_args(argv, 2) \o "\n"
      [] ReadsInput(how, argv) -> stdin
      [] OTHER -> ""

\* the bytes a pipe holds before write blocks
PipeCap == 2

\* how a program ends that writes to a pipe nobody can read: SIGPIPE kills it
\* or, when the shell inherited SIGPIPE ignored, write fails and it exits
BrokenPipe == {Signaled(13), Exited(1)}

(* ------------------------------------------------------------------ *)
(* State                                                               *)
(* ------------------------------------------------------------------ *)
VARIABLES
    pc,           \* where the shell process is: "prompt" (in read_command),
                  \* "seg" (top of the loop of execute_line_tokens), "wait"
                  \* (waitpid of exec_external), "wait1"/"wait2" (the two
                  \* waitpid calls of exec_pipeline), "ret" (after the loop,
                  \* before return), "done" (main returned), "reloaded" (the
                  \* next session after its load_history)
    running,      \* static volatile sig_atomic_t running
    last_status,  \* static int last_status
    status,       \* the local status of main
    history,      \* command_history and history_count
    histfile,     \* ~/.solix_history, a sequence of lines
    files,        \* the names of the files that exist
    fdtab,        \* the open descriptors of the shell process
    tokens,       \* the token array of the current line, after expand_vars
    i,            \* the loop index i of execute_line_tokens (1-based)
    cur,          \* the segment being waited for: its plan and descriptors,
                  \* and the bytes in its pipe
    procs,        \* the children of the current segment
    nlines,       \* lines read so far in this session
    exit_code,    \* the value main returned
    raw,          \* history variable: the tokens before expand_vars
    kinds,        \* history variable: the tokenizer branch of each token
    ran,          \* history variable: the segments of this line executed so far
    lastSeg,      \* history variable: <<s>> when the last thing the shell did
                  \* was to finish a segment with status s, else <<>>
    sigterm,      \* history variable: SIGTERM has been delivered
    termSeg,      \* history variable: how many segments of the line had been
                  \* started when SIGTERM was first delivered, counting the
                  \* one about to start (0 at the prompt)
    intPrompt,    \* history variable: SIGINT arrived in the current read_command
    afterInt,     \* history variable: the current line was read after such a SIGINT
    inserted      \* history variable: the lines this session added to the history

vars ==
    <<pc, running, last_status, status, history, histfile, files, fdtab, tokens,
      i, cur, procs, nlines, exit_code, raw, kinds, ran, lastSeg, sigterm,
      termSeg, intPrompt, afterInt, inserted>>

NoCur ==
    [plan |-> NoPlan, in_fd |-> -1, out_fd |-> -1, prev |-> <<>>,
     fds0 |-> InitFds, pre |-> <<>>, forkfail |-> FALSE, badwait |-> FALSE,
     pipefd |-> <<>>, pipe |-> ""]

Init ==
    /\ pc = "prompt"
    /\ running = TRUE
    /\ last_status = 0
    /\ status = 0
    /\ histfile \in InitHistFiles
    /\ history = load_history(EmptyHistory, histfile)
    /\ files = InitFiles
    /\ fdtab = InitFds
    /\ tokens = <<>>
    /\ i = 1
    /\ cur = NoCur
    /\ procs = <<>>
    /\ nlines = 0
    /\ exit_code = 0
    /\ raw = <<>>
    /\ kinds = <<>>
    /\ ran = <<>>
    /\ lastSeg = <<>>
    /\ sigterm = FALSE
    /\ termSeg = 0
    /\ intPrompt = FALSE
    /\ afterInt = FALSE
    /\ inserted = <<>>

(* ------------------------------------------------------------------ *)
(* main                                                                *)
(* ------------------------------------------------------------------ *)
\* the loop condition of line 737 and, when it fails, lines 767-769
LoopTop(run, st, h) ==
    IF run
    THEN pc' = "prompt" /\ UNCHANGED <<histfile, exit_code>>
    ELSE /\ pc' = "done"
         /\ histfile' = save_history(h, histfile)
         /\ exit_code' = st

\* lines 741-761: a line with at least one token
ReadLine(line) ==
    /\ pc = "prompt"
    /\ nlines < MaxLines
    /\ Len(line) > 0
    /\ LET t == tokenize_command(line, MAX_TOKENS)
       IN  /\ Len(t.toks) > 0
           /\ tokens' = expand_vars(t.toks, last_status)
           /\ raw' = t.toks
           /\ kinds' = t.kinds
    /\ history' = add_to_history(history, line)
    /\ inserted' = Append(inserted, line)
    /\ i' = 1
    /\ ran' = <<>>
    /\ pc' = "seg"
    /\ nlines' = nlines + 1
    /\ afterInt' = intPrompt
    /\ intPrompt' = FALSE
    /\ UNCHANGED <<running, last_status, status, histfile, files, fdtab, cur,
                   procs, exit_code, lastSeg, sigterm, termSeg>>

\* lines 741-759: a line of blanks gives no token
ReadBlank(line) ==
    /\ pc = "prompt"
    /\ nlines < MaxLines
    /\ Len(line) > 0
    /\ Len(tokenize_command(line, MAX_TOKENS).toks) = 0
    /\ history' = add_to_history(history, line)
    /\ inserted' = Append(inserted, line)
    /\ nlines' = nlines + 1
    /\ intPrompt' = FALSE
    /\ LoopTop(running, status, history')
    /\ UNCHANGED <<running, last_status, status, files, fdtab, tokens, i, cur,
                   procs, raw, kinds, ran, lastSeg, sigterm, termSeg,
                   afterInt>>

\* lines 748-751: the empty line
ReadEmpty ==
    /\ pc = "prompt"
    /\ nlines < MaxLines
    /\ nlines' = nlines + 1
    /\ intPrompt' = FALSE
    /\ LoopTop(running, status, history)
    /\ UNCHANGED <<running, last_status, status, history, files, fdtab,
                   tokens, i, cur, procs, raw, kinds, ran, lastSeg, sigterm,
                   termSeg, afterInt, inserted>>

\* lines 742-745 and 767-769: end of input
ReadEOF ==
    /\ pc = "prompt"
    /\ intPrompt' = FALSE
    /\ LoopTop(FALSE, status, history)
    /\ UNCHANGED <<running, last_status, status, history, files, fdtab,
                   tokens, i, cur, procs, nlines, raw, kinds, ran, lastSeg,
                   sigterm, termSeg, afterInt, inserted>>

\* line 346 and lines 761-763, then the loop condition
Return ==
    /\ pc = "ret"
    /\ status' = last_status
    /\ last_status' = status'
    /\ tokens' = <<>>
    /\ raw' = <<>>
    /\ kinds' = <<>>
    /\ ran' = <<>>
    /\ i' = 1
    /\ afterInt' = FALSE
    /\ LoopTop(running, status', history)
    /\ UNCHANGED <<running, history, files, fdtab, cur, procs, nlines,
                   lastSeg, sigterm, termSeg, intPrompt, inserted>>

(* ------------------------------------------------------------------ *)
(* execute_line_tokens, exec_simple, exec_external, exec_pipeline      *)
(* ------------------------------------------------------------------ *)
\* the content of a file for the record of a segment: <<>> when the segment
\* has no output file or the file does not exist
Content(fs, plan) ==
    IF plan.out_file # 0 /\ tokens[plan.out_file] \in DOMAIN fs
    THEN <<fs[tokens[plan.out_file]]>> ELSE <<>>

\* the record of an executed segment kept in ran.  fd_before and fd_after are
\* the descriptor tables of the shell when the segment started and finished,
\* pre and post the contents of its output file, wrote what its child wrote.
\* kids holds the state of each child when the last waitpid of the segment
\* returned, lws and rws the way the left and the right child of a pipeline
\* ended
Entry(plan, st, path, ws, how, execfail, prev) ==
    [start |-> plan.start, status |-> st, path |-> path, ws |-> ws, how |-> how,
     execfail |-> execfail, prev |-> prev, forkfail |-> FALSE,
     badwait |-> FALSE, children |-> 0, fd_before |-> fdtab,
     fd_after |-> fdtab, pre |-> <<>>, wrote |-> "", post |-> <<>>,
     kids |-> <<>>, lws |-> NoWait, rws |-> NoWait]

\* lines 334-344: record the status and move to the next segment
FinishSegment(plan, st, entry) ==
    /\ last_status' = st
    /\ ran' = Append(ran, entry)
    /\ lastSeg' = <<st>>
    /\ cur' = NoCur
    /\ procs' = <<>>
    /\ IF plan.chain = 0
       THEN pc' = "ret" /\ i' = i
       ELSE /\ i' = next_segment_start(tokens, plan, st)
            /\ pc' = IF i' <= Len(tokens) THEN "seg" ELSE "ret"

IsNoop(plan) ==
    IF plan.pipe_index = 0 THEN Len(plan.argv_left) = 0
    ELSE Len(plan.argv_left) = 0 \/ Len(plan.argv_right) = 0

\* line 247: open(in_file, O_RDONLY) fails
OpenInFails(plan) == plan.in_file # 0 /\ tokens[plan.in_file] \notin DOMAIN files

\* line 248: open(out_file, O_WRONLY|O_CREAT|...) fails
OpenOutFails(plan) == plan.out_file # 0 /\ tokens[plan.out_file] \in Unwritable

\* lines 247-248 when both opens succeed: the descriptor table of the shell
\* with the descriptors of the redirection files, and their numbers
exec_simple_open(tab, plan) ==
    LET tab1 == IF plan.in_file # 0 THEN AddFd(tab, tokens[plan.in_file])
                ELSE tab
        tab2 == IF plan.out_file # 0 THEN AddFd(tab1, tokens[plan.out_file])
                ELSE tab1
    IN  [tab |-> tab2,
         in_fd |-> IF plan.in_file # 0 THEN LowestFree(tab) ELSE -1,
         out_fd |-> IF plan.out_file # 0 THEN LowestFree(tab1) ELSE -1]

\* exec_simple_close with the close of out_fd left out
exec_simple_close_in_only(tab, in_fd, out_fd) ==
    IF in_fd # -1 THEN CloseFd(tab, in_fd) ELSE tab

\* lines 254-255: if (in_fd!=-1) close(in_fd); if (out_fd!=-1) close(out_fd);
exec_simple_close(tab, in_fd, out_fd) ==
    LET tab1 == IF in_fd # -1 THEN CloseFd(tab, in_fd) ELSE tab
    IN  IF out_fd # -1 THEN CloseFd(tab1, out_fd) ELSE tab1

\* lines 318 and 332: a segment with an empty argv has status 0
SegNoop ==
    /\ pc = "seg"
    /\ LET plan == plan_segment(tokens, i)
       IN  /\ IsNoop(plan)
           /\ FinishSegment(plan, 0,
                Entry(plan, 0, "noop", NoWait, "none", FALSE, lastSeg))
    /\ UNCHANGED <<running, status, history, histfile, files, fdtab, tokens,
                   nlines, exit_code, raw, kinds, sigterm, termSeg, intPrompt,
                   afterInt, inserted>>

\* lines 247-248: exec_simple returns 1 when a redirection file cannot be
\* opened; when it is the output file, the input descriptor is closed first
SegOpenFail ==
    /\ pc = "seg"
    /\ LET plan == plan_segment(tokens, i)
           tab1 == IF plan.in_file # 0 /\ ~OpenInFails(plan)
                   THEN AddFd(fdtab, tokens[plan.in_file]) ELSE fdtab
           in_fd == IF plan.in_file # 0 /\ ~OpenInFails(plan)
                    THEN LowestFree(fdtab) ELSE -1
           tab2 == IF in_fd # -1 THEN CloseFd(tab1, in_fd) ELSE tab1
       IN  /\ plan.pipe_index = 0
           /\ ~IsNoop(plan)
           /\ OpenInFails(plan) \/ OpenOutFails(plan)
           /\ fdtab' = tab2
           /\ FinishSegment(plan, 1,
                [Entry(plan, 1, "openfail", NoWait, "none", FALSE, lastSeg)
                    EXCEPT !.fd_after = tab2])
    /\ UNCHANGED <<running, status, history, histfile, files, tokens,
                   nlines, exit_code, raw, kinds, sigterm, termSeg, intPrompt,
                   afterInt, inserted>>

\* lines 249-250: a built-in without redirection runs in the shell process
SegBuiltin ==
    /\ pc = "seg"
    /\ LET plan == plan_segment(tokens, i)
           argv == ArgvText(tokens, plan.argv_left)
       IN  /\ plan.pipe_index = 0
           /\ ~IsNoop(plan)
           /\ plan.in_file = 0 /\ plan.out_file = 0
           /\ is_builtin(argv[1])
           /\ \E rc \in exec_builtin(argv) :
                FinishSegment(plan, rc,
                    Entry(plan, rc, "builtin", NoWait, "none", FALSE,
                          lastSeg))
           /\ running' = IF argv[1] = "exit" THEN FALSE ELSE running
    /\ UNCHANGED <<status, history, histfile, files, fdtab, tokens, nlines,
                   exit_code, raw, kinds, sigterm, termSeg, intPrompt,
                   afterInt, inserted>>

\* a child right after fork: fds is its copy of the descriptor table of the
\* shell, wrote what it has written to its standard output, got what it has
\* read from the pipe
Child(role, how, argv, fds) ==
    [role |-> role, how |-> how, argv |-> argv, st |-> "forked", ws |-> NoWait,
     execfail |-> FALSE, openfail |-> FALSE, fds |-> fds, wrote |-> "",
     got |-> ""]

\* fork returned -1: there is no child
NoChild(role) ==
    [role |-> role, how |-> "none", argv |-> <<>>, st |-> "nofork",
     ws |-> NoWait, execfail |-> FALSE, openfail |-> FALSE, fds |-> InitFds,
     wrote |-> "", got |-> ""]

\* lines 247-252 and 227: the files are opened and exec_external forks
SegFork ==
    /\ pc = "seg"
    /\ LET plan == plan_segment(tokens, i)
           argv == ArgvText(tokens, plan.argv_left)
           o == exec_simple_open(fdtab, plan)
       IN  /\ plan.pipe_index = 0
           /\ ~IsNoop(plan)
           /\ ~OpenInFails(plan) /\ ~OpenOutFails(plan)
           /\ ~(is_builtin(argv[1]) /\ o.in_fd = -1 /\ o.out_fd = -1)
           /\ files' = IF plan.out_file # 0
                       THEN open_out(files, tokens[plan.out_file], plan.append)
                       ELSE files
           /\ fdtab' = o.tab
           /\ cur' = [plan |-> plan, in_fd |-> o.in_fd, out_fd |-> o.out_fd,
                      prev |-> lastSeg, fds0 |-> fdtab,
                      pre |-> Content(files, plan), forkfail |-> FALSE,
                      badwait |-> FALSE, pipefd |-> <<>>, pipe |-> ""]
           /\ procs' = <<Child("simple", "execvp", argv, o.tab)>>
    /\ pc' = "wait"
    /\ UNCHANGED <<running, last_status, status, history, histfile, tokens, i,
                   nlines, exit_code, raw, kinds, ran, lastSeg, sigterm,
                   termSeg, intPrompt, afterInt, inserted>>

\* lines 247-248, 235-237 and 254-255: the files are opened, fork fails,
\* exec_external returns 1 and exec_simple closes the descriptors
SegForkFail ==
    /\ pc = "seg"
    /\ LET plan == plan_segment(tokens, i)
           argv == ArgvText(tokens, plan.argv_left)
           o == exec_simple_open(fdtab, plan)
           tab == exec_simple_close(o.tab, o.in_fd, o.out_fd)
           fs == IF plan.out_file # 0
                 THEN open_out(files, tokens[plan.out_file], plan.append)
                 ELSE files
       IN  /\ plan.pipe_index = 0
           /\ ~IsNoop(plan)
           /\ ~OpenInFails(plan) /\ ~OpenOutFails(plan)
           /\ ~(is_builtin(argv[1]) /\ o.in_fd = -1 /\ o.out_fd = -1)
           /\ files' = fs
           /\ fdtab' = tab
           /\ FinishSegment(plan, 1,
                [Entry(plan, 1, "simple", NoWait, "none", FALSE, lastSeg)
                    EXCEPT !.forkfail = TRUE, !.fd_after = tab,
                           !.pre = Content(files, plan),
                           !.post = Content(fs, plan)])
    /\ UNCHANGED <<running, status, history, histfile, tokens, nlines,
                   exit_code, raw, kinds, sigterm, termSeg, intPrompt,
                   afterInt, inserted>>

ChildHow(argv) == IF is_builtin(argv[1]) THEN "builtin" ELSE "execvp"

\* line 261, pipe(pipefd): the table with both ends, and their numbers
pipe_open(tab) ==
    LET tab1 == AddFd(tab, PipeR)
    IN  [tab |-> AddFd(tab1, PipeW), r |-> LowestFree(tab),
         w |-> LowestFree(tab1)]

\* lines 261-285: the pipe and the two forks, each of which may fail; the
\* return value of fork is not tested
SegPipe ==
    /\ pc = "seg"
    /\ LET plan == plan_segment(tokens, i)
           left == ArgvText(tokens, plan.argv_left)
           right == ArgvText(tokens, plan.argv_right)
           pp == pipe_open(fdtab)
       IN  /\ plan.pipe_index # 0
           /\ ~IsNoop(plan)
           /\ fdtab' = pp.tab
           /\ \E ok1 \in BOOLEAN, ok2 \in BOOLEAN :
                /\ procs' =
                     << IF ok1 THEN Child("left", ChildHow(left), left, pp.tab)
                        ELSE NoChild("left"),
                        IF ok2 THEN Child("right", ChildHow(right), right, pp.tab)
                        ELSE NoChild("right") >>
                /\ cur' = [plan |-> plan, in_fd |-> -1, out_fd |-> -1,
                           prev |-> lastSeg, fds0 |-> fdtab,
                           pre |-> Content(files, plan),
                           forkfail |-> ~ok1 \/ ~ok2, badwait |-> FALSE,
                           pipefd |-> <<pp.r, pp.w>>, pipe |-> ""]
    /\ pc' = "pclose"
    /\ UNCHANGED <<running, last_status, status, history, histfile, files,
                   tokens, i, nlines, exit_code, raw, kinds, ran,
                   lastSeg, sigterm, termSeg, intPrompt, afterInt, inserted>>

\* line 261: pipe fails and exec_pipeline returns 1
SegPipeFail ==
    /\ pc = "seg"
    /\ LET plan == plan_segment(tokens, i)
       IN  /\ plan.pipe_index # 0
           /\ ~IsNoop(plan)
           /\ FinishSegment(plan, 1,
                Entry(plan, 1, "pipefail", NoWait, "none", FALSE, lastSeg))
    /\ UNCHANGED <<running, status, history, histfile, files, fdtab, tokens,
                   nlines, exit_code, raw, kinds, sigterm, termSeg, intPrompt,
                   afterInt, inserted>>

\* line 286: close(pipefd[0]); close(pipefd[1]);
PipeClose ==
    /\ pc = "pclose"
    /\ fdtab' = CloseFd(CloseFd(fdtab, cur.pipefd[1]), cur.pipefd[2])
    /\ pc' = "wait1"
    /\ UNCHANGED <<running, last_status, status, history, histfile, files,
                   tokens, i, cur, procs, nlines, exit_code, raw, kinds, ran,
                   lastSeg, sigterm, termSeg, intPrompt, afterInt, inserted>>

\* lines 230-231: the child of exec_external duplicates the redirection
\* descriptors onto 0 and 1
child_simple_fds(tab, in_fd, out_fd) ==
    LET tab1 == IF in_fd # -1 THEN dup2(tab, in_fd, 0) ELSE tab
    IN  IF out_fd # -1 THEN dup2(tab1, out_fd, 1) ELSE tab1

\* lines 266-269: the left child opens its input, duplicates it and the
\* write end, and closes both ends and the input descriptor
child_left_fds(tab, pipefd, in_path) ==
    LET in_fd == IF in_path # <<>> THEN LowestFree(tab) ELSE -1
        tab1 == IF in_path # <<>> THEN AddFd(tab, in_path[1]) ELSE tab
        tab2 == IF in_fd # -1 THEN dup2(tab1, in_fd, 0) ELSE tab1
        tab3 == dup2(tab2, pipefd[2], 1)
        tab4 == CloseFd(CloseFd(tab3, pipefd[1]), pipefd[2])
    IN  IF in_fd # -1 THEN CloseFd(tab4, in_fd) ELSE tab4

\* child_right_fds with the close of pipefd[1] of line 281 left out
child_right_fds_keep_write(tab, pipefd, out_path) ==
    LET out_fd == IF out_path # <<>> THEN LowestFree(tab) ELSE -1
        tab1 == IF out_path # <<>> THEN AddFd(tab, out_path[1]) ELSE tab
        tab2 == dup2(tab1, pipefd[1], 0)
        tab3 == IF out_fd # -1 THEN dup2(tab2, out_fd, 1) ELSE tab2
        tab4 == CloseFd(tab3, pipefd[1])
    IN  IF out_fd # -1 THEN CloseFd(tab4, out_fd) ELSE tab4

\* lines 278-281: the right child opens its output, duplicates the read end
\* and the output, and closes both ends and the output descriptor
child_right_fds(tab, pipefd, out_path) ==
    LET out_fd == IF out_path # <<>> THEN LowestFree(tab) ELSE -1
        tab1 == IF out_path # <<>> THEN AddFd(tab, out_path[1]) ELSE tab
        tab2 == dup2(tab1, pipefd[1], 0)
        tab3 == IF out_fd # -1 THEN dup2(tab2, out_fd, 1) ELSE tab2
        tab4 == CloseFd(CloseFd(tab3, pipefd[1]), pipefd[2])
    IN  IF out_fd # -1 THEN CloseFd(tab4, out_fd) ELSE tab4

PathOf(k) == IF k = 0 THEN <<>> ELSE <<tokens[k]>>

\* the child's code up to the built-in dispatch or execvp: lines 229-234,
\* 264-272, 276-284
ChildSetup(n) ==
    /\ n \in DOMAIN procs
    /\ procs[n].st = "forked"
    /\ LET c == procs[n]
           plan == cur.plan
           openfail == \/ c.role = "left" /\ OpenInFails(plan)
                       \/ c.role = "right" /\ OpenOutFails(plan)
           found == c.argv[1] \in DOMAIN Installed
           fds == CASE c.role = "simple" ->
                         child_simple_fds(c.fds, cur.in_fd, cur.out_fd)
                    [] c.role = "left" ->
                         child_left_fds(c.fds, cur.pipefd, PathOf(plan.in_file))
                    [] c.role = "right" ->
                         child_right_fds(c.fds, cur.pipefd, PathOf(plan.out_file))
       IN  /\ procs' = [procs EXCEPT ![n] =
                IF openfail
                THEN [c EXCEPT !.st = "zombie", !.ws = Exited(1),
                               !.openfail = TRUE]
                ELSE IF c.how = "execvp" /\ ~found
                THEN [c EXCEPT !.st = "zombie", !.ws = Exited(127),
                               !.execfail = TRUE, !.fds = fds]
                ELSE [c EXCEPT !.st = "run", !.fds = fds]]
           /\ files' = IF c.role = "right" /\ plan.out_file # 0 /\ ~openfail
                       THEN open_out(files, tokens[plan.out_file], plan.append)
                       ELSE files
    /\ UNCHANGED <<pc, running, last_status, status, history, histfile, fdtab,
                   tokens, i, cur, nlines, exit_code, raw, kinds, ran,
                   lastSeg, sigterm, termSeg, intPrompt, afterInt, inserted>>

\* the processes that hold an end of the pipe open: 0 is the shell, n the
\* child procs[n] while it lives
HoldsEnd(tab, end) == \E d \in DOMAIN tab : tab[d] = end

Holders(end) ==
    {p \in {0} : HoldsEnd(fdtab, end)}
      \cup {n \in DOMAIN procs : /\ procs[n].st \in {"forked", "run"}
                                 /\ HoldsEnd(procs[n].fds, end)}

\* the child reads its standard input to the end, and that is the pipe
FromPipe(c) == ReadsInput(c.how, c.argv) /\ c.fds[0] = PipeR

\* the standard output of the child is the pipe
ToPipe(c) == c.fds[1] = PipeW

\* what the child can read from descriptor 0
StdinText(c) ==
    IF c.fds[0] = PipeR THEN c.got
    ELSE IF c.fds[0] \in DOMAIN files THEN files[c.fds[0]] ELSE ""

\* the bytes the child sends to descriptor 1.  A built-in of a pipeline runs
\* in the child and ends with _exit (lines 270 and 282), which does not flush
\* stdio: unless descriptor 1 is the terminal, where stdout is line-buffered,
\* what it printed is lost
child_output(c) ==
    IF c.how = "builtin" /\ c.fds[1] # "tty" THEN ""
    ELSE program_output(c.how, c.argv, StdinText(c))

\* the bytes the child has still to write to the pipe
Pending(c) ==
    IF ToPipe(c) /\ Len(c.wrote) < Len(child_output(c))
    THEN SubSeq(child_output(c), Len(c.wrote) + 1, Len(child_output(c)))
    ELSE ""

\* read on the pipe returns 0: it is empty and no process holds its write end
AtEOF == cur.pipe = "" /\ Holders(PipeW) = {}

\* write(1, ...) in a child whose output is the pipe: as many bytes as fit
PipeWrite(n) ==
    /\ n \in DOMAIN procs
    /\ procs[n].st = "run"
    /\ Pending(procs[n]) # ""
    /\ Holders(PipeR) # {}
    /\ Len(cur.pipe) < PipeCap
    /\ LET c == procs[n]
           room == PipeCap - Len(cur.pipe)
           k == IF Len(Pending(c)) < room THEN Len(Pending(c)) ELSE room
           chunk == SubSeq(Pending(c), 1, k)
       IN  /\ cur' = [cur EXCEPT !.pipe = @ \o chunk]
           /\ procs' = [procs EXCEPT ![n].wrote = @ \o chunk]
    /\ UNCHANGED <<pc, running, last_status, status, history, histfile, files,
                   fdtab, tokens, i, nlines, exit_code, raw, kinds, ran,
                   lastSeg, sigterm, termSeg, intPrompt, afterInt, inserted>>

\* write(1, ...) when no process holds the read end
PipeBroken(n) ==
    /\ n \in DOMAIN procs
    /\ procs[n].st = "run"
    /\ Pending(procs[n]) # ""
    /\ Holders(PipeR) = {}
    /\ \E ws \in BrokenPipe :
         procs' = [procs EXCEPT ![n] = [@ EXCEPT !.st = "zombie", !.ws = ws]]
    /\ UNCHANGED <<pc, running, last_status, status, history, histfile, files,
                   fdtab, tokens, i, cur, nlines, exit_code, raw, kinds, ran,
                   lastSeg, sigterm, termSeg, intPrompt, afterInt, inserted>>

\* read(0, ...) in a child whose input is the pipe: it takes what is there
PipeRead(n) ==
    /\ n \in DOMAIN procs
    /\ procs[n].st = "run"
    /\ FromPipe(procs[n])
    /\ cur.pipe # ""
    /\ procs' = [procs EXCEPT ![n].got = @ \o cur.pipe]
    /\ cur' = [cur EXCEPT !.pipe = ""]
    /\ UNCHANGED <<pc, running, last_status, status, history, histfile, files,
                   fdtab, tokens, i, nlines, exit_code, raw, kinds, ran,
                   lastSeg, sigterm, termSeg, intPrompt, afterInt, inserted>>

\* the program or the built-in in the child runs to its end: it has written
\* its output to its descriptor 1, has read the pipe to the end when it reads
\* its input, and exits
ChildExit(n) ==
    /\ n \in DOMAIN procs
    /\ procs[n].st = "run"
    /\ Pending(procs[n]) = ""
    /\ FromPipe(procs[n]) => AtEOF
    /\ LET c == procs[n]
           codes == IF c.how = "builtin" THEN exec_builtin(c.argv)
                    ELSE {Installed[c.argv[1]]}
           data == child_output(c)
       IN  /\ \E code \in codes :
               procs' = [procs EXCEPT ![n] =
                            [c EXCEPT !.st = "zombie", !.ws = Exited(code % 256),
                                      !.wrote = data]]
           /\ files' = IF c.fds[1] \in DOMAIN files
                       THEN write_out(files, c.fds[1], data, cur.plan.append)
                       ELSE files
    /\ UNCHANGED <<pc, running, last_status, status, history, histfile,
                   fdtab, tokens, i, cur, nlines, exit_code, raw, kinds, ran,
                   lastSeg, sigterm, termSeg, intPrompt, afterInt, inserted>>

\* a signal with the default disposition ends the child
KillChild(n, sig) ==
    /\ n \in DOMAIN procs
    /\ procs[n].st \in {"forked", "run"}
    /\ procs' = [procs EXCEPT ![n] =
                    [procs[n] EXCEPT !.st = "zombie", !.ws = Signaled(sig)]]
    /\ UNCHANGED <<pc, running, last_status, status, history, histfile, files,
                   fdtab, tokens, i, cur, nlines, exit_code, raw, kinds, ran,
                   lastSeg, sigterm, termSeg, intPrompt, afterInt, inserted>>

\* lines 239-241 and 254-255: exec_external reaps the child, exec_simple
\* closes the redirection descriptors
WaitSimple ==
    /\ pc = "wait"
    /\ procs[1].st = "zombie"
    /\ LET c == procs[1]
           st == wait_to_status(c.ws)
           tab == exec_simple_close(fdtab, cur.in_fd, cur.out_fd)
       IN  /\ fdtab' = tab
           /\ FinishSegment(cur.plan, st,
                [Entry(cur.plan, st, "simple", c.ws, c.how, c.execfail,
                       cur.prev)
                    EXCEPT !.children = 1, !.fd_before = cur.fds0,
                           !.fd_after = tab, !.pre = cur.pre,
                           !.wrote = c.wrote,
                           !.post = Content(files, cur.plan),
                           !.kids = <<c.st>>])
    /\ UNCHANGED <<running, status, history, histfile, files, tokens, nlines,
                   exit_code, raw, kinds, sigterm, termSeg, intPrompt,
                   afterInt, inserted>>

\* line 287, int st1=0, st2=0: the value a failed waitpid leaves in place,
\* which WIFEXITED reads as a normal exit with code 0
st_init == Exited(0)

\* WaitLeft with WNOHANG: the call returns whether or not the child has ended
WaitLeft_nohang ==
    /\ pc = "wait1"
    /\ procs' = [procs EXCEPT ![1].st = IF @ = "zombie" THEN "reaped" ELSE @]
    /\ cur' = cur
    /\ pc' = "wait2"
    /\ UNCHANGED <<running, last_status, status, history, histfile, files,
                   fdtab, tokens, i, nlines, exit_code, raw, kinds, ran,
                   lastSeg, sigterm, termSeg, intPrompt, afterInt, inserted>>

\* line 287, waitpid(c1, &st1, 0).  When the first fork failed c1 is -1 and
\* the call waits for any child: it reaps the right child once that has
\* ended, or fails at once when there is none
WaitLeft ==
    /\ pc = "wait1"
    /\ \/ /\ procs[1].st = "zombie"
          /\ procs' = [procs EXCEPT ![1].st = "reaped"]
          /\ cur' = cur
       \/ /\ procs[1].st = "nofork"
          /\ procs[2].st = "zombie"
          /\ procs' = [procs EXCEPT ![2].st = "reaped"]
          /\ cur' = [cur EXCEPT !.badwait = TRUE]
       \/ /\ procs[1].st = "nofork"
          /\ procs[2].st = "nofork"
          /\ procs' = procs
          /\ cur' = [cur EXCEPT !.badwait = TRUE]
    /\ pc' = "wait2"
    /\ UNCHANGED <<running, last_status, status, history, histfile, files,
                   fdtab, tokens, i, nlines, exit_code, raw, kinds, ran,
                   lastSeg, sigterm, termSeg, intPrompt, afterInt, inserted>>

\* how many of the two forks gave a child
Forked(ps) == Cardinality({n \in DOMAIN ps : ps[n].st # "nofork"})

\* lines 287-288, waitpid(c2, &st2, 0) and the status of the pipeline.  The
\* call fails, leaving st2 as it was, when the right child was reaped by the
\* first call or was never forked
WaitRight ==
    /\ pc = "wait2"
    /\ procs[2].st \in {"zombie", "reaped", "nofork"}
    /\ LET c == procs[2]
           ws == IF c.st = "zombie" THEN c.ws ELSE st_init
           st == wait_to_status(ws)
       IN  FinishSegment(cur.plan, st,
                [Entry(cur.plan, st, "pipe", ws, c.how, c.execfail, cur.prev)
                    EXCEPT !.children = Forked(procs),
                           !.forkfail = cur.forkfail,
                           !.badwait = cur.badwait \/ c.st = "nofork",
                           !.fd_before = cur.fds0, !.pre = cur.pre,
                           !.wrote = c.wrote,
                           !.post = Content(files, cur.plan),
                           !.kids = <<procs[1].st, c.st>>,
                           !.lws = procs[1].ws, !.rws = c.ws])
    /\ UNCHANGED <<running, status, history, histfile, files, fdtab, tokens,
                   nlines, exit_code, raw, kinds, sigterm, termSeg, intPrompt,
                   afterInt, inserted>>

(* ------------------------------------------------------------------ *)
(* Signals delivered to the shell process                              *)
(* ------------------------------------------------------------------ *)
\* signal() installs the handler with restart semantics: an interrupted read
\* or waitpid is resumed, so the shell stays where it was
Alive == pc \in {"prompt", "seg", "wait", "pclose", "wait1", "wait2", "ret"}

Deliver(sig) ==
    LET g == signal_handler(sig, [running |-> running, last_status |-> last_status])
    IN  /\ running' = g.running
        /\ last_status' = g.last_status

SigInt ==
    /\ Alive
    /\ Deliver(SIGINT)
    /\ lastSeg' = <<>>
    /\ intPrompt' = (intPrompt \/ pc = "prompt")
    /\ UNCHANGED <<pc, status, history, histfile, files, fdtab, tokens, i,
                   cur, procs, nlines, exit_code, raw, kinds, ran, sigterm,
                   termSeg, afterInt, inserted>>

\* the segments of the current line started so far
Started ==
    Len(ran) + (IF pc \in {"wait", "pclose", "wait1", "wait2"} THEN 1 ELSE 0)

SigTerm ==
    /\ Alive
    /\ Deliver(SIGTERM)
    /\ sigterm' = TRUE
    /\ termSeg' = IF sigterm THEN termSeg
                  ELSE IF pc = "seg" THEN Started + 1 ELSE Started
    /\ UNCHANGED <<pc, status, history, histfile, files, fdtab, tokens, i,
                   cur, procs, nlines, exit_code, raw, kinds, ran, lastSeg,
                   intPrompt, afterInt, inserted>>

(* ------------------------------------------------------------------ *)
(* The next session                                                    *)
(* ------------------------------------------------------------------ *)
\* a new shell process starts and runs load_history (line 734)
NextSession ==
    /\ pc = "done"
    /\ pc' = "reloaded"
    /\ history' = load_history(EmptyHistory, histfile)
    /\ running' = TRUE
    /\ last_status' = 0
    /\ status' = 0
    /\ sigterm' = FALSE
    /\ termSeg' = 0
    /\ lastSeg' = <<>>
    /\ UNCHANGED <<histfile, files, fdtab, tokens, i, cur, procs, nlines,
                   exit_code, raw, kinds, ran, intPrompt, afterInt, inserted>>

Next ==
    \/ \E line \in Lines : ReadLine(line)
    \/ \E line \in Lines : ReadBlank(line)
    \/ ReadEmpty
    \/ ReadEOF
    \/ Return
    \/ SegNoop
    \/ SegOpenFail
    \/ SegBuiltin
    \/ SegFork
    \/ SegForkFail
    \/ SegPipe
    \/ SegPipeFail
    \/ PipeClose
    \/ \E n \in {1, 2} : ChildSetup(n)
    \/ \E n \in {1, 2} : ChildExit(n)
    \/ \E n \in {1, 2}, sig \in KillSignals : KillChild(n, sig)
    \/ WaitSimple
    \/ WaitLeft
    \/ WaitRight
    \/ SigInt
    \/ SigTerm
    \/ NextSession

Spec == Init /\ [][Next]_vars


(* ------------------------------------------------------------------ *)
(* Properties                                                          *)
(* ------------------------------------------------------------------ *)
PlanOf(e) == plan_segment(tokens, e.start)

\* the entry of ran for the segment that starts at token start, if any
Executed(start) == \E n \in DOMAIN ran : ran[n].start = start

\* the condition under which the follow operator op lets the next segment run
FollowAllows(op, st) ==
    /\ op = "&&" => st = 0
    /\ op = "||" => st # 0

\* C1: in `A && X`, X is executed if and only if A finished with status 0;
\* in `A || Y`, Y is executed if and only if A finished with a non-zero
\* status; at the end of the line last_status is the status of the last
\* segment that was executed.
C1_ShortCircuit ==
    /\ \A n \in DOMAIN ran :
          LET a == ran[n]
              p == PlanOf(a)
          IN  p.chain # 0 /\ p.end + 1 <= Len(tokens) =>
                /\ Executed(p.end + 1) => FollowAllows(tokens[p.chain], a.status)
                /\ pc = "ret" /\ FollowAllows(tokens[p.chain], a.status)
                      => Executed(p.end + 1)
    /\ pc = "ret" /\ ran # <<>> /\ lastSeg # <<>>
          => last_status = ran[Len(ran)].status

\* C2: when `echo $?` is executed immediately after a segment that ended
\* with status s, on the previous line or earlier on the same line, the
\* word passed to echo is the decimal text of s.
C2_StatusExpansion ==
    \A n \in DOMAIN ran :
        LET e == ran[n]
            argv == PlanOf(e).argv_left
        IN  /\ e.path = "builtin"
            /\ e.prev # <<>>
            /\ ArgvText(raw, argv) = <<"echo", "$?">>
            => tokens[argv[2]] = FormatInt(e.prev[1])

\* C3: the status of a forked simple command, and of a pipeline from its
\* right child, is the child's exit code when it exits (127 when the
\* program cannot be executed) and 128 + N when signal N ends it.
C3_WaitStatus ==
    \A n \in DOMAIN ran :
        LET e == ran[n]
        IN  e.path \in {"simple", "pipe"} =>
              /\ e.ws.kind = "exited" => e.status = e.ws.n
              /\ e.ws.kind = "signaled" => e.status = 128 + e.ws.n
              /\ e.execfail => e.status = 127

\* C4: a built-in with a redirection is run by a forked child that
\* dispatches the built-in function itself, without a lookup of an external
\* program, and descriptors 0 and 1 of the shell are unchanged afterwards.
C4_BuiltinRedirect ==
    /\ \A n \in DOMAIN ran :
        LET e == ran[n]
            p == PlanOf(e)
        IN  /\ p.pipe_index = 0
            /\ ~IsNoop(p)
            /\ is_builtin(tokens[p.argv_left[1]])
            /\ p.in_file # 0 \/ p.out_file # 0
            /\ e.path # "openfail"
            => /\ e.path = "simple"
               /\ e.how = "builtin"
               /\ fdtab[0] = "tty" /\ fdtab[1] = "tty"
    /\ pc = "wait" /\ is_builtin(procs[1].argv[1]) => procs[1].how = "builtin"

\* C5: the planner never treats a Word token as an operator: every token at
\* which it splits segments, makes a pipe or sets a redirection was emitted
\* by the tokenizer as an operator.
C5_WordNeverOperator ==
    \A n \in DOMAIN ran : \A k \in PlanOf(ran[n]).ops : kinds[k] = "Op"

\* C6: once SIGTERM has been delivered, running is false and the shell
\* starts no new segment: it has started no more segments than had been
\* started when the signal arrived (none of a line read afterwards).
C6_SigtermStops ==
    sigterm =>
        /\ ~running
        /\ Started <= termSeg

InLine == pc \in {"seg", "wait", "pclose", "wait1", "wait2", "ret"}

\* C7: SIGINT at the prompt does not end the shell: it stays in
\* read_command with running unchanged and last_status 130, and the next line
\* is read and executed, with every `$?` on it expanded to 130.
C7_SigintAtPrompt ==
    /\ intPrompt => pc = "prompt" /\ last_status = 130 /\ (running \/ sigterm)
    /\ afterInt =>
          /\ InLine
          /\ \A k \in DOMAIN raw : raw[k] = "$?" => tokens[k] = "130"
          /\ pc = "ret" => ran # <<>>

C7_Witness ==
    /\ afterInt
    /\ running
    /\ pc = "ret"
    /\ \E k \in DOMAIN raw : raw[k] = "$?" /\ tokens[k] = "130"

\* C8: whatever the history file held at start-up, after a session that
\* inserted K <= 200 entries and shut down, the next session's load_history
\* yields exactly those K entries, in order.
C8_HistoryDurability ==
    pc = "reloaded" /\ Len(inserted) <= HISTORY_SIZE
        => history_entries(history) = inserted

\* C9: the value main returns equals last_status at that moment.
C9_ExitCode == pc = "done" => exit_code = last_status

\* a Word written right after a redirection operator of the tokenizer
IsRedirTarget(k) ==
    /\ k > 1
    /\ kinds[k] = "Word"
    /\ kinds[k - 1] = "Op"
    /\ raw[k - 1] \in {"<", ">", ">>"}

ArgvIndexes(p) ==
    {p.argv_left[m] : m \in DOMAIN p.argv_left}
        \cup {p.argv_right[m] : m \in DOMAIN p.argv_right}

\* the plans handed to exec_pipeline on this line so far
PipePlans ==
    {PlanOf(ran[n]) : n \in {m \in DOMAIN ran : ran[m].path = "pipe"}}
        \cup (IF pc \in {"pclose", "wait1", "wait2"} THEN {cur.plan} ELSE {})

\* C10: in a segment with a pipe, both argv hold only Word tokens that are
\* not redirection targets, the left command has no stdout redirection and
\* the right command no stdin redirection.
C10_PipelineArgv ==
    \A p \in PipePlans :
        /\ \A k \in ArgvIndexes(p) : kinds[k] = "Word" /\ ~IsRedirTarget(k)
        /\ p.out_file = 0 \/ p.out_file > p.pipe_index
        /\ p.in_file = 0 \/ p.in_file < p.pipe_index

\* the token array without its k-th entry
RemoveAt(toks, k) == SubSeq(toks, 1, k - 1) \o SubSeq(toks, k + 1, Len(toks))

\* what a plan hands to exec_simple or exec_pipeline, as text: the paths
\* (<<>> for NULL), the append flag of the output path, and the two argv
PlanText(toks, p) ==
    [in_file |-> IF p.in_file = 0 THEN <<>> ELSE <<toks[p.in_file]>>,
     out_file |-> IF p.out_file = 0 THEN <<>> ELSE <<toks[p.out_file]>>,
     append |-> p.out_file # 0 /\ p.append,
     argv_left |-> ArgvText(toks, p.argv_left),
     argv_right |-> ArgvText(toks, p.argv_right)]

\* token k is a redirection operator of the tokenizer that is not followed
\* by a Word before the segment ends at token end
Dangling(k, end) ==
    /\ kinds[k] = "Op"
    /\ raw[k] \in {"<", ">", ">>"}
    /\ k + 1 >= end \/ kinds[k + 1] = "Op"

\* C11: a redirection operator with no word after it inside its segment is
\* ignored: the paths, the append flag and the argv planned for the segment
\* are those planned for the segment with that operator removed.
C11_DanglingIgnored ==
    \A n \in DOMAIN ran :
        LET s == ran[n].start
            p == plan_segment(tokens, s)
        IN  \A k \in s..(p.end - 1) :
                Dangling(k, p.end) =>
                    PlanText(RemoveAt(tokens, k),
                             plan_segment(RemoveAt(tokens, k), s))
                        = PlanText(tokens, p)

\* the executed simple commands that were run with an output file
OutSegs ==
    {n \in DOMAIN ran :
        /\ ran[n].path = "simple"
        /\ ran[n].children = 1
        /\ PlanOf(ran[n]).out_file # 0}

\* C12: a simple command run with `> f` leaves f holding exactly what the
\* command wrote, whatever f held before; run with `>> f` it leaves f
\* holding what f held before followed by what the command wrote.
C12_OutputRedirection ==
    \A n \in OutSegs :
        LET e == ran[n]
            op == raw[PlanOf(e).out_file - 1]
            before == IF e.pre = <<>> THEN "" ELSE e.pre[1]
        IN  /\ op = ">" => e.post = <<e.wrote>>
            /\ op = ">>" => e.post = <<before \o e.wrote>>

(* ------------------------------------------------------------------ *)
(* Reading one line: main up to the call of execute_line_tokens        *)
(* ------------------------------------------------------------------ *)
\* the characters of the lines: two ordinary characters, the blank, the
\* operator characters, the quotes, the backslash and the dollar
Alphabet == {"a", "U", " ", ";", "&", "|", ">", "<", "\"", "'", "\\", "$"}

\* the strings over Alphabet of length at most n
RECURSIVE Strings(_)
Strings(n) ==
    IF n = 0 THEN {""}
    ELSE LET S == Strings(n - 1) IN S \cup {s \o c : s \in S, c \in Alphabet}

\* n fields of one character, each followed by a blank
RECURSIVE FieldsLine(_)
FieldsLine(n) ==
    IF n = 0 THEN ""
    ELSE IF n = 1 THEN "a "
    ELSE FieldsLine(n \div 2) \o FieldsLine(n - (n \div 2))

\* what read_command may return: every short line, and lines with as many
\* fields as the token array holds, and one more
ReadLines ==
    (Strings(MaxLen) \ {""})
        \cup {FieldsLine(MAX_TOKENS), FieldsLine(MAX_TOKENS + 1)}

NextRead ==
    \/ pc = "prompt" /\ nlines < MaxLines /\ \E line \in ReadLines : ReadLine(line)
    \/ pc = "prompt" /\ nlines < MaxLines /\ \E line \in ReadLines : ReadBlank(line)

SpecRead == Init /\ [][NextRead]_vars

\* the line the shell has just read
LastLine == inserted[Len(inserted)]

\* C13: a word `$NAME` whose NAME is not in the environment is replaced by
\* the empty string and stays one token at its position; the number of
\* tokens and the other tokens are unchanged.
C13_UnsetExpansion ==
    pc = "seg" =>
        /\ Len(tokens) = Len(raw)
        /\ \A k \in DOMAIN raw :
              IF /\ kinds[k] = "Word"
                 /\ Ch(raw[k], 1) = "$"
                 /\ Ch(raw[k], 2) # NUL /\ Ch(raw[k], 2) # "?"
                 /\ ~getenv_set(SubSeq(raw[k], 2, Len(raw[k])))
              THEN tokens[k] = ""
              ELSE Ch(raw[k], 1) # "$" => tokens[k] = raw[k]

OperatorTexts == {";", "&&", "||", "|", "<", ">", ">>"}

\* non-empty words of ordinary characters
OrdinaryWords == {"a", "U", "aa", "aU", "Ua", "UU"}

\* C14: for every operator op and ordinary words a and b, the line a op b
\* written without blanks gives exactly Word(a), Op(op), Word(b).
C14_OperatorAtomicity ==
    Len(inserted) > 0 =>
        \A a \in OrdinaryWords, b \in OrdinaryWords, op \in OperatorTexts :
            LastLine = a \o op \o b =>
                /\ raw = <<a, op, b>>
                /\ kinds = <<"Word", "Op", "Word">>

\* the number of maximal runs of characters other than blank and tab in
\* line: the positions where such a run starts
Runs(line) ==
    Cardinality({p \in 1..Len(line) :
                    ~is_space(Ch(line, p)) /\ (p = 1 \/ is_space(Ch(line, p - 1)))})

NoOperatorNoQuote(line) ==
    \A p \in 1..Len(line) : Ch(line, p) \notin {";", "&", "|", "<", ">", "\"", "'"}

\* C15: for a line without operator characters and without quote
\* characters, the number of tokens is the number of maximal runs of
\* characters other than blank and tab.
C15_FieldCount ==
    Len(inserted) > 0 /\ NoOperatorNoQuote(LastLine)
        => Len(raw) = Runs(LastLine)

\* C16: every token returned by tokenize_command has at least one character.
C16_NoEmptyWord ==
    Len(inserted) > 0 => \A k \in DOMAIN raw : Len(raw[k]) >= 1

(* ------------------------------------------------------------------ *)
(* The history ring under a sequence of add_to_history calls           *)
(* ------------------------------------------------------------------ *)
\* the ring before any call; nlines counts the calls, inserted keeps the
\* non-empty strings passed
InitHist ==
    /\ pc = "hist"
    /\ running = TRUE
    /\ last_status = 0
    /\ status = 0
    /\ histfile = <<>>
    /\ history = EmptyHistory
    /\ files = InitFiles
    /\ fdtab = InitFds
    /\ tokens = <<>>
    /\ i = 1
    /\ cur = NoCur
    /\ procs = <<>>
    /\ nlines = 0
    /\ exit_code = 0
    /\ raw = <<>>
    /\ kinds = <<>>
    /\ ran = <<>>
    /\ lastSeg = <<>>
    /\ sigterm = FALSE
    /\ termSeg = 0
    /\ intPrompt = FALSE
    /\ afterInt = FALSE
    /\ inserted = <<>>

\* one call add_to_history(command), as load_history makes for each line of
\* the file and main for each line read
HistAdd(command) ==
    /\ pc = "hist"
    /\ IF command = "" THEN nlines - Len(inserted) < MaxEmpty
       ELSE Len(inserted) < MaxAdds
    /\ history' = add_to_history(history, command)
    /\ inserted' = IF command = "" THEN inserted ELSE Append(inserted, command)
    /\ nlines' = nlines + 1
    /\ UNCHANGED <<pc, running, last_status, status, histfile, files, fdtab,
                   tokens, i, cur, procs, exit_code, raw, kinds, ran, lastSeg,
                   sigterm, termSeg, intPrompt, afterInt>>

\* the strings a call may pass: the empty string, or a command that names
\* its place among the insertions
NextHist ==
    \E command \in {"", "c" \o FormatInt(Len(inserted) + 1)} : HistAdd(command)

SpecHist == InitHist /\ [][NextHist]_vars

\* the index of the first retained entry among N insertions
FirstKept(N) == IF N > HISTORY_SIZE THEN N - HISTORY_SIZE ELSE 0

\* C17: after add_to_history calls of which N passed a non-empty string, the
\* history listing is the last min(N, 200) of those strings in insertion
\* order, numbered max(0, N - 200) + 1 to N; the counter is N and the slots
\* written are those of the N insertions, so a call with the empty string
\* changes neither.
C17_HistoryRing ==
    pc = "hist" =>
        LET N == Len(inserted)
        IN  /\ history.count = N
            /\ DOMAIN history.ring = {n % HISTORY_SIZE : n \in 0..(N - 1)}
            /\ builtin_history(history) =
                  [n \in 1..(N - FirstKept(N)) |->
                      printf_3d(FirstKept(N) + n) \o "  "
                          \o inserted[FirstKept(N) + n] \o "\n"]

C17_Witness ==
    /\ pc = "hist"
    /\ Len(inserted) > HISTORY_SIZE
    /\ nlines > Len(inserted)
    /\ Len(builtin_history(history)) = HISTORY_SIZE
    /\ builtin_history(history)[1] = "  " \o FormatInt(Len(inserted) - HISTORY_SIZE + 1)
                                        \o "  " \o inserted[Len(inserted) - HISTORY_SIZE + 1]
                                        \o "\n"

\* C18: when a fork fails while a segment is executed, for a simple command
\* and for either child of a pipeline, the status of the segment is 1 and
\* the shell has not waited for a child that does not exist.
C18_ForkFailure ==
    \A n \in DOMAIN ran :
        ran[n].forkfail => ran[n].status = 1 /\ ~ran[n].badwait

\* C19: after a segment has finished, on every path, the descriptors open in
\* the shell process are those open before it; when exec_simple fails to
\* open a redirection file the status is 1 and no child was made, and a child
\* of a pipeline whose open fails exits with 1 without running its command.
C19_NoDescriptorLeak ==
    /\ \A n \in DOMAIN ran :
          /\ ran[n].fd_after = ran[n].fd_before
          /\ ran[n].path = "openfail" => ran[n].status = 1 /\ ran[n].children = 0
    /\ pc \in {"seg", "ret", "prompt", "done"} => fdtab = InitFds
    /\ \A n \in DOMAIN procs :
          procs[n].openfail =>
              /\ procs[n].st \in {"zombie", "reaped"}
              /\ procs[n].ws = Exited(1)
              /\ procs[n].wrote = ""

\* a simple command with an input file has been forked, has ended and has
\* been reaped, and the line is finished
C19_Witness ==
    \E n \in DOMAIN ran :
        /\ ran[n].path = "simple"
        /\ ran[n].children = 1
        /\ PlanOf(ran[n]).in_file # 0
        /\ ran[n].fd_after = InitFds
        /\ pc = "ret"

\* the child of the simple command being waited for is running its program
\* and the command has a redirection
RedirectedChildRuns ==
    /\ pc = "wait"
    /\ procs[1].st = "run"
    /\ cur.in_fd # -1 \/ cur.out_fd # -1

\* C20: in the child of a redirected simple command the descriptors of the
\* redirection files are closed after they have been duplicated onto 0 and
\* 1, so the program starts with no descriptor for those files other than
\* 0 and 1.
C20_ChildClosesOriginals ==
    RedirectedChildRuns =>
        LET fds == procs[1].fds
        IN  /\ cur.in_fd # -1 => fds[0] = tokens[cur.plan.in_file]
            /\ cur.out_fd # -1 => fds[1] = tokens[cur.plan.out_file]
            /\ \A fd \in DOMAIN fds \ {0, 1} :
                  /\ cur.in_fd # -1 => fds[fd] # tokens[cur.plan.in_file]
                  /\ cur.out_fd # -1 => fds[fd] # tokens[cur.plan.out_file]

(* ------------------------------------------------------------------ *)
(* C21: foreground execution                                           *)
(* ------------------------------------------------------------------ *)
\* C21: when both forks of a pipeline succeeded, the second waitpid returns
\* with the left child already reaped and the right child ended, so that no
\* child is running or waiting to be reaped when the next segment starts or
\* the next line is read (the one child of a simple command likewise); and
\* when the right child exited normally with code e the status of the
\* pipeline is e, however the left child ended.
C21_ForegroundPipeline ==
    /\ pc \in {"prompt", "seg", "ret", "done", "reloaded"}
         => \A n \in DOMAIN procs : procs[n].st \notin {"forked", "run", "zombie"}
    /\ \A k \in DOMAIN ran :
         LET e == ran[k]
         IN  /\ (e.path = "simple" /\ e.children = 1) => e.kids = <<"zombie">>
             /\ (e.path = "pipe" /\ e.children = 2)
                  => /\ e.kids = <<"reaped", "zombie">>
                     /\ WIFEXITED(e.rws) => e.status = WEXITSTATUS(e.rws)

\* C21 witness: a pipeline returned 7, the exit code of its right child, after
\* its left child was killed by a signal, and both had been reaped
C21_Witness ==
    \E k \in DOMAIN ran :
        /\ ran[k].path = "pipe"
        /\ ran[k].children = 2
        /\ ran[k].kids = <<"reaped", "zombie">>
        /\ ran[k].lws = Signaled(SIGTERM)
        /\ ran[k].rws = Exited(7)
        /\ ran[k].status = 7

(* ------------------------------------------------------------------ *)
(* C22: the pipe of exec_pipeline (lines 259-289) with data in it      *)
(* ------------------------------------------------------------------ *)
\* pipelines whose left command writes more than the pipe holds, read to the
\* end by the right command or not at all, and one whose left command
\* writes nothing
PipeLines == {"tee < f | tee", "tee < f | cmd", "cmd | tee"}

NextPipe ==
    \/ pc = "prompt" /\ nlines < MaxLines /\ \E line \in PipeLines : ReadLine(line)
    \/ ReadEOF
    \/ Return
    \/ SegPipe
    \/ SegPipeFail
    \/ PipeClose
    \/ \E n \in {1, 2} : ChildSetup(n)
    \/ \E n \in {1, 2} : PipeWrite(n)
    \/ \E n \in {1, 2} : PipeRead(n)
    \/ \E n \in {1, 2} : PipeBroken(n)
    \/ \E n \in {1, 2} : ChildExit(n)
    \/ \E n \in {1, 2}, sig \in KillSignals : KillChild(n, sig)
    \/ WaitLeft
    \/ WaitRight

\* the kernel runs every process that can run: the shell gets to its close
\* and waitpid calls, a child to its next step, and a process blocked in
\* read, write or waitpid goes on once the call can return
PipeFairness ==
    /\ WF_vars(PipeClose)
    /\ WF_vars(WaitLeft)
    /\ WF_vars(WaitRight)
    /\ \A n \in {1, 2} :
         /\ WF_vars(ChildSetup(n))
         /\ WF_vars(PipeWrite(n))
         /\ WF_vars(PipeRead(n))
         /\ WF_vars(PipeBroken(n))
         /\ WF_vars(ChildExit(n))

SpecPipe == Init /\ [][NextPipe]_vars /\ PipeFairness

\* the shell is inside exec_pipeline, after the forks
InPipeline == pc \in {"pclose", "wait1", "wait2"}

\* the descriptors of a table that refer to an end of the pipe
EndsAt(tab, end) == {d \in DOMAIN tab : tab[d] = end}

\* past its setup each process holds only the end it uses: the shell none,
\* the left child the write end as descriptor 1, the right child the read end
\* as descriptor 0
C22_EndsClosed ==
    /\ pc \in {"wait1", "wait2"}
         => EndsAt(fdtab, PipeR) = {} /\ EndsAt(fdtab, PipeW) = {}
    /\ \A n \in DOMAIN procs :
         procs[n].st = "run" =>
            /\ procs[n].role = "left"
                 => /\ EndsAt(procs[n].fds, PipeR) = {}
                    /\ EndsAt(procs[n].fds, PipeW) = {1}
            /\ procs[n].role = "right"
                 => /\ EndsAt(procs[n].fds, PipeW) = {}
                    /\ EndsAt(procs[n].fds, PipeR) = {0}

LeftEnded == InPipeline /\ procs[1].st \in {"zombie", "reaped"}

RightEnded == InPipeline /\ procs[2].st \in {"zombie", "reaped"}

LeftAlive == InPipeline /\ procs[1].st \in {"forked", "run"}

\* C22: in every interleaving of the shell and the two children of a
\* pipeline, past its own setup no process but the left child holds the write
\* end and none but the right child the read end; so once the left child has
\* ended the right command sees end-of-file and the pipeline returns, and
\* once the right child has ended the left child does not stay blocked in
\* write.
C22_PipeEOF ==
    /\ []C22_EndsClosed
    /\ LeftEnded ~> ~InPipeline
    /\ RightEnded ~> ~LeftAlive

\* C22 witness: a pipeline has returned whose right command read to the end
\* of the pipe all that the left one wrote, more than the pipe holds at once
C22_Witness ==
    \E k \in DOMAIN ran :
        /\ ran[k].path = "pipe"
        /\ ran[k].children = 2
        /\ ran[k].lws = Exited(0)
        /\ ran[k].rws = Exited(0)
        /\ ran[k].wrote = InitFiles["f"]
        /\ Len(ran[k].wrote) > PipeCap

(* ------------------------------------------------------------------ *)
(* C23: the exit built-in and the rest of its line                     *)
(* ------------------------------------------------------------------ *)
\* lines with exit as a simple command in first, middle and last place, in
\* front of each chain operator, and on either side of a pipeline
ExitLines ==
    { "exit 3", "exit 3 ; echo y", "echo y ; exit 3", "exit 3 && echo y",
      "exit 0 && echo y", "exit 0 || echo y", "exit 3 || exit 4 ; echo y",
      "cmd | exit 3", "exit 3 | cmd" }

NextExit ==
    \/ pc = "prompt" /\ nlines < MaxLines /\ \E line \in ExitLines : ReadLine(line)
    \/ ReadEOF
    \/ Return
    \/ SegBuiltin
    \/ SegPipe
    \/ PipeClose
    \/ \E n \in {1, 2} : ChildSetup(n)
    \/ \E n \in {1, 2} : ChildExit(n)
    \/ WaitLeft
    \/ WaitRight

SpecExit == Init /\ [][NextExit]_vars

\* the segment of e was exit run by the shell process itself
IsExit(e) ==
    e.path = "builtin" /\ tokens[PlanOf(e).argv_left[1]] = "exit"

ExitRan == \E k \in DOMAIN ran : IsExit(ran[k])

\* the segment of e was a pipeline with exit on one of its sides
IsPipedExit(e) ==
    /\ e.path = "pipe"
    /\ \/ tokens[PlanOf(e).argv_left[1]] = "exit"
       \/ tokens[PlanOf(e).argv_right[1]] = "exit"

\* after exit has run in the shell: running is cleared, the segments that
\* follow obey the chain operators, and the status of exit is its argument
C23_AfterExit ==
    ExitRan =>
        /\ ~running
        /\ pc # "prompt"
        /\ \A k \in DOMAIN ran :
              LET a == ran[k]
                  p == PlanOf(a)
              IN  /\ IsExit(a)
                    => a.status = builtin_exit(ArgvText(tokens, p.argv_left))
                  /\ (\E j \in 1..k : IsExit(ran[j]))
                       /\ p.chain # 0 /\ p.end + 1 <= Len(tokens) =>
                        /\ Executed(p.end + 1)
                             => FollowAllows(tokens[p.chain], a.status)
                        /\ pc = "ret" /\ FollowAllows(tokens[p.chain], a.status)
                             => Executed(p.end + 1)

\* an exit that ran in a child of a pipeline leaves running as it was
C23_PipedExit ==
    (~ExitRan /\ \E k \in DOMAIN ran : IsPipedExit(ran[k])) => running

\* the step that ends a line on which exit ran: main leaves its loop, saves
\* the history and returns the status of the last segment executed
C23_LeaveLoop ==
    (pc = "ret" /\ ExitRan) =>
        /\ pc' = "done"
        /\ nlines' = nlines
        /\ histfile' = save_history(history, histfile)
        /\ exit_code' = ran[Len(ran)].status

\* C23: after exit has run in the shell process, the remaining segments of
\* the line are executed as the chain operators prescribe, no further line is
\* read, the history is saved, and the exit code of the process is the status
\* of the last segment executed on the line, exit's argument only when exit
\* was that segment; an exit run in a child of a pipeline leaves running true.
C23_ExitRestOfLine ==
    /\ [](C23_AfterExit /\ C23_PipedExit)
    /\ [][C23_LeaveLoop]_vars

(* ------------------------------------------------------------------ *)
(* C24: the arrays argv_left and argv_right of the planner             *)
(* ------------------------------------------------------------------ *)
\* C24: for a token list of at most MAX_TOKENS tokens, every index at which
\* execute_line_tokens writes argv_left or argv_right for the segment it is
\* about to run, the terminating NULL included, lies in 0..MAX_TOKENS-1.
C24_PlannerBounds ==
    (pc = "seg" /\ Len(tokens) <= MAX_TOKENS) =>
        LET plan == plan_segment(tokens, i)
        IN  \A idx \in argv_left_writes(plan) \cup argv_right_writes(plan) :
                idx \in 0..(MAX_TOKENS - 1)

=============================================================================
